---------------------------- MODULE Spec2Model ----------------------------
(***************************************************************************)
(* Model of scrape.py, the NPS Looker-Studio scraper: the line parser, the *)
(* CSV-backed dedup ledger, the Google-Chat formatter and the scrape_once  *)
(* orchestrator with its recursive auth-refresh retry.                     *)
(*                                                                         *)
(* Text is modelled as sequences of one-character strings, so that         *)
(* strip(), the two regular expressions, the CSV writer and the CSV reader *)
(* are computed character by character.                                    *)
(***************************************************************************)
EXTENDS Integers, Sequences, FiniteSets, TLC

(***************************************************************************)
(* Characters                                                              *)
(***************************************************************************)
LF == "LF"
CR == "CR"
SP == " "
COMMA == ","
QUOTE == "Q"
BR == "<br>"

Digits == {"0", "1", "2", "3", "4", "5", "6", "7", "8", "9"}

\* characters removed by str.strip() and matched by \s
Whitespace == {SP, LF, CR}

DigitVal(ch) ==
  CASE ch = "0" -> 0 [] ch = "1" -> 1 [] ch = "2" -> 2 [] ch = "3" -> 3
    [] ch = "4" -> 4 [] ch = "5" -> 5 [] ch = "6" -> 6 [] ch = "7" -> 7
    [] ch = "8" -> 8 [] ch = "9" -> 9

DigitChar(d) ==
  CASE d = 0 -> "0" [] d = 1 -> "1" [] d = 2 -> "2" [] d = 3 -> "3"
    [] d = 4 -> "4" [] d = 5 -> "5" [] d = 6 -> "6" [] d = 7 -> "7"
    [] d = 8 -> "8" [] d = 9 -> "9"

(***************************************************************************)
(* str.strip(), str.join(), str.replace()                                  *)
(***************************************************************************)
RECURSIVE lstrip(_)
lstrip(s) ==
  IF s # <<>> /\ Head(s) \in Whitespace THEN lstrip(Tail(s)) ELSE s

RECURSIVE rstrip(_)
rstrip(s) ==
  IF s # <<>> /\ s[Len(s)] \in Whitespace
    THEN rstrip(SubSeq(s, 1, Len(s) - 1))
    ELSE s

strip(s) == rstrip(lstrip(s))

\* "\n".join(text_lines)
RECURSIVE join_lines(_)
join_lines(ls) ==
  IF ls = <<>> THEN <<>>
  ELSE IF Len(ls) = 1 THEN ls[1]
  ELSE ls[1] \o <<LF>> \o join_lines(Tail(ls))

\* c["comment"].replace('\n', '<br>')
replace_newlines(s) == [k \in 1..Len(s) |-> IF s[k] = LF THEN BR ELSE s[k]]

(***************************************************************************)
(* The two regular expressions of the parser                               *)
(***************************************************************************)
\* store_re without the \s+: digits followed by anything
store_re_match_no_space(s) == s # <<>> /\ s[1] \in Digits

\* store_re = ^\d+\s+.*  (re.match: anchored at the start only)
store_re_match(s) ==
  \E k \in 1..(Len(s) - 1) :
     /\ \A j \in 1..k : s[j] \in Digits
     /\ s[k + 1] \in Whitespace

\* score_re = ^[0-9]{1,2}$
score_re_match(s) ==
  /\ Len(s) \in {1, 2}
  /\ \A j \in 1..Len(s) : s[j] \in Digits

(***************************************************************************)
(* parse_comments                                                          *)
(***************************************************************************)
\* scan_body matching score_re on the line as it is, not on its stripped form
RECURSIVE scan_body_unstripped(_, _)
scan_body_unstripped(lines, idx) ==
  IF idx <= Len(lines) /\ ~score_re_match(lines[idx])
    THEN scan_body_unstripped(lines, idx + 1)
    ELSE idx

\* the inner while loop: first index >= idx whose stripped line matches
\* score_re, or n + 1 when the input ends first
RECURSIVE scan_body(_, _)
scan_body(lines, idx) ==
  IF idx <= Len(lines) /\ ~score_re_match(strip(lines[idx]))
    THEN scan_body(lines, idx + 1)
    ELSE idx

\* record_at looking ahead: a header on the next line ends the record there
record_at_lookahead(lines, idx) ==
  IF idx + 1 <= Len(lines) /\ store_re_match(strip(lines[idx + 1]))
    THEN [rec  |-> [store |-> strip(lines[idx]), timestamp |-> <<>>,
                    comment |-> <<>>, score |-> <<>>],
          next |-> idx + 1]
    ELSE
  LET n     == Len(lines)
      ts    == IF idx + 1 <= n THEN strip(lines[idx + 1]) ELSE <<>>
      stop  == scan_body(lines, idx + 2)
      text_lines == [k \in 1..(stop - (idx + 2)) |-> strip(lines[idx + 1 + k])]
      score == IF stop <= n THEN strip(lines[stop]) ELSE <<>>
  IN  [rec  |-> [store     |-> strip(lines[idx]),
                 timestamp |-> ts,
                 comment   |-> strip(join_lines(text_lines)),
                 score     |-> score],
       next |-> IF stop <= n THEN stop + 1 ELSE stop]

\* the record built for the store-header line at index idx
record_at(lines, idx) ==
  LET n     == Len(lines)
      ts    == IF idx + 1 <= n THEN strip(lines[idx + 1]) ELSE <<>>
      stop  == scan_body(lines, idx + 2)
      text_lines == [k \in 1..(stop - (idx + 2)) |-> strip(lines[idx + 1 + k])]
      score == IF stop <= n THEN strip(lines[stop]) ELSE <<>>
  IN  [rec  |-> [store     |-> strip(lines[idx]),
                 timestamp |-> ts,
                 comment   |-> strip(join_lines(text_lines)),
                 score     |-> score],
       next |-> IF stop <= n THEN stop + 1 ELSE stop]

\* the outer while loop, from index idx with the records found so far
RECURSIVE parse_from(_, _, _)
parse_from(lines, idx, comments) ==
  IF idx > Len(lines) THEN comments
  ELSE IF store_re_match(strip(lines[idx]))
    THEN LET r == record_at(lines, idx)
         IN  parse_from(lines, r.next, Append(comments, r.rec))
    ELSE parse_from(lines, idx + 1, comments)

parse_comments(lines) == parse_from(lines, 1, <<>>)

\* the outer while loop again, keeping for each record the index of its
\* header line and the index of the last line read for it
RECURSIVE spans_from(_, _, _)
spans_from(lines, idx, spans) ==
  IF idx > Len(lines) THEN spans
  ELSE IF store_re_match(strip(lines[idx]))
    THEN LET r    == record_at(lines, idx)
             last == IF r.next - 1 <= Len(lines) THEN r.next - 1
                                                 ELSE Len(lines)
         IN  spans_from(lines, r.next,
                        Append(spans, [from |-> idx, to |-> last]))
    ELSE spans_from(lines, idx + 1, spans)

parse_spans(lines) == spans_from(lines, 1, <<>>)

(***************************************************************************)
(* The ledger file comments_log.csv: csv.writer and csv.DictReader         *)
(***************************************************************************)
fieldnames == <<"store", "timestamp", "comment", "score">>

\* the value DictReader gives a field name the row has no column for
None == <<"None">>

Ident(c) == <<c.store, c.timestamp, c.comment>>

\* QUOTE_MINIMAL: a field is quoted when it holds the delimiter, the quote
\* character or a line-terminator character
needs_quotes(field) ==
  \E k \in 1..Len(field) : field[k] \in {COMMA, QUOTE, CR, LF}

RECURSIVE double_quotes(_)
double_quotes(field) ==
  IF field = <<>> THEN <<>>
  ELSE (IF Head(field) = QUOTE THEN <<QUOTE, QUOTE>> ELSE <<Head(field)>>)
         \o double_quotes(Tail(field))

\* write_field with the quoting lost
write_field_unquoted(field) == field

write_field(field) ==
  IF needs_quotes(field)
    THEN <<QUOTE>> \o double_quotes(field) \o <<QUOTE>>
    ELSE field

\* csv.writer(f).writerow(row): fields joined by the delimiter, then "\r\n"
RECURSIVE write_fields(_)
write_fields(row) ==
  IF Len(row) = 1 THEN write_field(row[1])
  ELSE write_field(row[1]) \o <<COMMA>> \o write_fields(Tail(row))

writerow(row) == write_fields(row) \o <<CR, LF>>

\* write_rows writing the list from its last record to its first
RECURSIVE write_rows_reversed(_)
write_rows_reversed(new) ==
  IF new = <<>> THEN <<>>
  ELSE write_rows_reversed(Tail(new))
         \o writerow(<<new[1].store, new[1].timestamp,
                       new[1].comment, new[1].score>>)

\* the rows append_comments writes for the list new, in order
RECURSIVE write_rows(_)
write_rows(new) ==
  IF new = <<>> THEN <<>>
  ELSE writerow(<<new[1].store, new[1].timestamp,
                  new[1].comment, new[1].score>>)
         \o write_rows(Tail(new))

\* The reader's state machine over the characters of one record, from index k
\* of the file.  st is "start_field", "in_field", "in_quoted" or
\* "quote_in_quoted"; field and row are the field and the record being built.
\* The result is the record and the index after its line terminator.
RECURSIVE csv_record(_, _, _, _, _)
csv_record(data, k, st, field, row) ==
  IF k > Len(data)
    THEN \* end of data: the record under construction is returned
         [row |-> Append(row, field), next |-> k]
  ELSE
    LET ch == data[k]
        eol == ch \in {CR, LF}
    IN
    CASE st = "start_field" ->
           IF eol
             THEN [row |-> Append(row, <<>>), next |-> k + 1]
           ELSE IF ch = QUOTE
             THEN csv_record(data, k + 1, "in_quoted", <<>>, row)
           ELSE IF ch = COMMA
             THEN csv_record(data, k + 1, "start_field", <<>>,
                             Append(row, <<>>))
           ELSE csv_record(data, k + 1, "in_field", <<ch>>, row)
      [] st = "in_field" ->
           IF eol
             THEN [row |-> Append(row, field), next |-> k + 1]
           ELSE IF ch = COMMA
             THEN csv_record(data, k + 1, "start_field", <<>>,
                             Append(row, field))
           ELSE csv_record(data, k + 1, "in_field", Append(field, ch), row)
      [] st = "in_quoted" ->
           IF ch = QUOTE
             THEN csv_record(data, k + 1, "quote_in_quoted", field, row)
             ELSE csv_record(data, k + 1, "in_quoted", Append(field, ch), row)
      [] st = "quote_in_quoted" ->
           IF ch = QUOTE
             THEN csv_record(data, k + 1, "in_quoted", Append(field, QUOTE),
                             row)
           ELSE IF ch = COMMA
             THEN csv_record(data, k + 1, "start_field", <<>>,
                             Append(row, field))
           ELSE IF eol
             THEN [row |-> Append(row, field), next |-> k + 1]
           ELSE csv_record(data, k + 1, "in_field", Append(field, ch), row)

\* the first index from k on that holds no line-terminator character: the
\* rest of a "\r\n" and empty lines yield no row
RECURSIVE record_start(_, _)
record_start(data, k) ==
  IF k <= Len(data) /\ data[k] \in {CR, LF}
    THEN record_start(data, k + 1)
    ELSE k

\* the records of the file from index k on, one reader iteration each
RECURSIVE csv_read(_, _, _)
csv_read(data, k, rows) ==
  LET start == record_start(data, k)
  IN  IF start > Len(data) THEN rows
      ELSE LET r == csv_record(data, start, "start_field", <<>>, <<>>)
           IN  csv_read(data, r.next, Append(rows, r.row))

csv_reader(data) == csv_read(data, 1, <<>>)

\* csv.DictReader(f, fieldnames=[...]): the row as a mapping, a missing
\* column read as None
dict_row(row) ==
  [name \in {fieldnames[k] : k \in 1..Len(fieldnames)} |->
     LET k == CHOOSE j \in 1..Len(fieldnames) : fieldnames[j] = name
     IN  IF k <= Len(row) THEN row[k] ELSE None]

\* seen_of with the score read into the identity in place of the comment
seen_of_with_score(data) ==
  LET rows == csv_reader(data)
  IN  { LET r == dict_row(rows[k])
        IN  <<r["store"], r["timestamp"], r["score"]>> : k \in 1..Len(rows) }

\* an open ledger file's identities
seen_of(data) ==
  LET rows == csv_reader(data)
  IN  { LET r == dict_row(rows[k])
        IN  <<r["store"], r["timestamp"], r["comment"]>> : k \in 1..Len(rows) }

\* read_seen(): file is [exists |-> BOOLEAN, data |-> characters]
read_seen(file) ==
  IF ~file.exists THEN {} ELSE seen_of(file.data)

\* append_comments opening the file in mode "w"
append_comments_truncating(file, new) ==
  [exists |-> TRUE, data |-> write_rows(new)]

\* append_comments(new): mode "a" creates the file and never rewrites it
append_comments(file, new) ==
  [exists |-> TRUE, data |-> file.data \o write_rows(new)]

(***************************************************************************)
(* post_comment: score coercion, classification and the card payload       *)
(***************************************************************************)
RECURSIVE digits_value(_, _)
digits_value(s, acc) ==
  IF s = <<>> THEN acc
  ELSE digits_value(Tail(s), 10 * acc + DigitVal(Head(s)))

\* int(text) succeeds on an optionally signed, whitespace-padded digit string
int_ok(text) ==
  LET t == strip(text)
      d == IF t # <<>> /\ Head(t) \in {"-", "+"} THEN Tail(t) ELSE t
  IN  d # <<>> /\ \A k \in 1..Len(d) : d[k] \in Digits

int_of(text) ==
  LET t == strip(text)
  IN  IF Head(t) = "-" THEN 0 - digits_value(Tail(t), 0)
      ELSE IF Head(t) = "+" THEN digits_value(Tail(t), 0)
      ELSE digits_value(t, 0)

\* try: score=int(c["score"] or 0) / except ValueError: score=0
coerce_score(text) ==
  IF text = <<>> THEN 0
  ELSE IF int_ok(text) THEN int_of(text)
  ELSE 0

\* str(score)
RECURSIVE nat_str(_)
nat_str(n) ==
  IF n < 10 THEN <<DigitChar(n)>>
  ELSE Append(nat_str(n \div 10), DigitChar(n % 10))

int_str(n) == IF n < 0 THEN <<"-">> \o nat_str(0 - n) ELSE nat_str(n)

\* classify with the thresholds at 5 and 8
classify_5_8(score) ==
  IF score <= 5 THEN <<"red", "Detractor">>
  ELSE IF score <= 8 THEN <<"orange", "Passive">>
  ELSE <<"green", "Promoter">>

\* emoji,label = red/Detractor if score<=4 else orange/Passive if score<=7
\*               else green/Promoter
classify(score) ==
  IF score <= 4 THEN <<"red", "Detractor">>
  ELSE IF score <= 7 THEN <<"orange", "Passive">>
  ELSE <<"green", "Promoter">>

\* the card post_comment builds for record c
payload_of(c) ==
  LET score == coerce_score(c.score)
      el    == classify(score)
  IN  [title     |-> "New NPS Comment",
       subtitle  |-> <<el[1], SP>> \o c.store \o <<SP, "(", el[2], ")">>,
       timestamp |-> c.timestamp,
       score     |-> int_str(score),
       text      |-> replace_newlines(c.comment)]

\* the card of a call that returns before building one
NoPayload ==
  [title |-> "", subtitle |-> <<>>, timestamp |-> <<>>, score |-> <<>>,
   text |-> <<>>]

\* one call of post_comment with outcome res, as the chat webhook sees it
post_comment(c, res) ==
  [c |-> c, res |-> res,
   payload |-> IF res = "invalid" THEN NoPayload ELSE payload_of(c)]

\* what one call of post_comment can come to: no request at all when the
\* webhook is not a chat.googleapis.com URL, else a request that is accepted
\* or that raises (transport error, non-2xx) and is logged
post_results(webhook_ok) ==
  IF ~webhook_ok THEN {"invalid"} ELSE {"ok", "failed"}

(***************************************************************************)
(* Bounds and the inputs the environment can supply                        *)
(***************************************************************************)
\* invocations of the script (process starts) in one behaviour
MaxRuns == 3
\* nested scrape_once frames; the code itself has no bound
MaxDepth == 3

\* raw lines of one dashboard record and of some variations of it
RecA  == << <<"5", SP, "A">>, <<"t">>, <<"o", "k">>, <<"9">> >>
\* the same store, timestamp and comment with another score
RecA3 == << <<"5", SP, "A">>, <<"t">>, <<"o", "k">>, <<"3">> >>
\* padded lines, a two-line body holding a comma and a quote character
RecB  == << <<SP, "7", SP, "B", SP>>, <<"u">>, <<"a", COMMA, "b">>,
            <<QUOTE, "c", SP>>, <<"1", "0">> >>

\* what page.locator("body").inner_text().splitlines() can return
Pages ==
  { RecA, RecA3, RecA \o RecB, RecA \o RecA3, RecB \o << <<"x">> >>,
    << <<"x">>, <<"4">> >> }

\* the value of the local variable lines
NoneLines   == [is_none |-> TRUE, val |-> <<>>]
Lines(l)    == [is_none |-> FALSE, val |-> l]

(***************************************************************************)
(* State                                                                   *)
(***************************************************************************)
VARIABLES
  auth_state,       \* auth_state.json exists
  comments_log,     \* comments_log.csv: [exists, data]
  main_webhook_ok,  \* "chat.googleapis.com" in MAIN_WEBHOOK
  stack,            \* the scrape_once frames, innermost last
  exit,             \* how the last invocation ended
  runs,             \* invocations started
  fetches,          \* copy_looker_text calls of the current invocation
  rejections,       \* those of them that returned None
  ledger_ops,       \* read_seen and append_comments calls of the invocation
  alerts,           \* alert_login_needed calls of the current invocation
  sent,             \* post_comment calls of the current invocation, in order
  ever_posted,      \* identities post_comment was ever called for
  ever_delivered,   \* identities the chat webhook ever accepted
  appended,         \* records of all completed append_comments calls
  last_completed,   \* lines of the last cycle that ran to its end
  arg,              \* argument of a function under test
  result,           \* its result
  called            \* it has been applied

vars == <<auth_state, comments_log, main_webhook_ok, stack, exit, runs,
          fetches, rejections, ledger_ops, alerts, sent, ever_posted,
          ever_delivered, appended,
          last_completed, arg, result, called>>

files   == <<auth_state, comments_log>>
history == <<ever_posted, ever_delivered, appended, last_completed>>
harness == <<arg, result, called>>

\* a fresh scrape_once frame
NewFrame ==
  [pc |-> "L174", lines |-> NoneLines, comments |-> <<>>, new |-> <<>>,
   i |-> 0, logins |-> 0]

Top == stack[Len(stack)]
SetTop(f) == [stack EXCEPT ![Len(stack)] = f]
Pop == SubSeq(stack, 1, Len(stack) - 1)
At(pc) == stack # <<>> /\ Top.pc = pc

\* the frame returns; the process exits normally when it was the outermost
Return ==
  /\ stack' = Pop
  /\ exit' = IF Len(stack) = 1 THEN "ok" ELSE exit

Init ==
  /\ auth_state \in BOOLEAN
  /\ comments_log = [exists |-> FALSE, data |-> <<>>]
  /\ main_webhook_ok \in BOOLEAN
  /\ stack = <<>>
  /\ exit = "none"
  /\ runs = 0
  /\ fetches = 0
  /\ rejections = 0
  /\ ledger_ops = <<>>
  /\ alerts = 0
  /\ sent = <<>>
  /\ ever_posted = {}
  /\ ever_delivered = {}
  /\ appended = <<>>
  /\ last_completed = NoneLines
  /\ arg = <<>>
  /\ result = <<>>
  /\ called = FALSE

(***************************************************************************)
(* The command line entry and scrape_once                                  *)
(***************************************************************************)
\* python scrape.py [login]
Start(cmd) ==
  /\ stack = <<>>
  /\ runs < MaxRuns
  /\ runs' = runs + 1
  /\ auth_state' = IF cmd = "login" THEN FALSE ELSE auth_state
  /\ stack' = <<NewFrame>>
  /\ exit' = "none"
  /\ fetches' = 0
  /\ rejections' = 0
  /\ ledger_ops' = <<>>
  /\ alerts' = 0
  /\ sent' = <<>>
  /\ UNCHANGED <<comments_log, main_webhook_ok, history, harness>>

\* auth_state.json exists: straight on to the scrape
AuthPresent ==
  /\ At("L174")
  /\ auth_state
  /\ stack' = SetTop([Top EXCEPT !.pc = "L185"])
  /\ UNCHANGED <<files, main_webhook_ok, exit, runs, fetches, rejections,
                 ledger_ops, alerts, sent,
                 history, harness>>

\* auth_state.json missing, auto_login_and_save_state returns True
AutoLoginOk ==
  /\ At("L174")
  /\ ~auth_state
  /\ auth_state' = TRUE
  /\ stack' = SetTop([Top EXCEPT !.pc = "L185", !.logins = @ + 1])
  /\ UNCHANGED <<comments_log, main_webhook_ok, exit, runs, fetches, rejections,
                 ledger_ops, alerts,
                 sent, history, harness>>

\* AutoLoginFailed with the return after the alert lost
AutoLoginFailed_no_return ==
  /\ At("L174")
  /\ ~auth_state
  /\ alerts' = alerts + 1
  /\ stack' = SetTop([Top EXCEPT !.pc = "L185"])
  /\ UNCHANGED <<files, main_webhook_ok, exit, runs, fetches, rejections,
                 ledger_ops, sent, history,
                 harness>>

\* auth_state.json missing, auto_login_and_save_state returns False
AutoLoginFailed ==
  /\ At("L174")
  /\ ~auth_state
  /\ alerts' = alerts + 1
  /\ Return
  /\ UNCHANGED <<files, main_webhook_ok, runs, fetches, rejections,
                 ledger_ops, sent, history,
                 harness>>

\* lines = copy_looker_text(...): None on a redirect to the sign-in page,
\* [] when the body text cannot be read or is empty, else the page's lines
FetchResults == {NoneLines, Lines(<<>>)} \cup {Lines(p) : p \in Pages}

Fetch(r) ==
  /\ At("L185")
  /\ fetches' = fetches + 1
  /\ rejections' = IF r.is_none THEN rejections + 1 ELSE rejections
  /\ stack' = SetTop([Top EXCEPT !.pc = "L191", !.lines = r])
  /\ UNCHANGED <<files, main_webhook_ok, exit, runs, ledger_ops, alerts, sent,
                 history, harness>>

\* page.goto raises (navigation timeout or error): nothing catches it
FetchRaises ==
  /\ At("L185")
  /\ fetches' = fetches + 1
  /\ stack' = <<>>
  /\ exit' = "traceback"
  /\ UNCHANGED <<files, main_webhook_ok, runs, rejections, ledger_ops, alerts,
                 sent, history, harness>>

\* AuthRejected with the os.remove lost: the retry finds the stale file
AuthRejected_keeps_auth ==
  /\ At("L191")
  /\ Top.lines.is_none
  /\ Len(stack) < MaxDepth
  /\ stack' = Append(SetTop([Top EXCEPT !.pc = "L195"]), NewFrame)
  /\ UNCHANGED <<files, main_webhook_ok, exit, runs, fetches, rejections,
                 ledger_ops, alerts, sent, history, harness>>

\* if lines is None: os.remove(AUTH_STATE_PATH); scrape_once(); return
AuthRejected ==
  /\ At("L191")
  /\ Top.lines.is_none
  /\ Len(stack) < MaxDepth
  /\ auth_state' = FALSE
  /\ stack' = Append(SetTop([Top EXCEPT !.pc = "L195"]), NewFrame)
  /\ UNCHANGED <<comments_log, main_webhook_ok, exit, runs, fetches, rejections,
                 ledger_ops, alerts,
                 sent, history, harness>>

\* RetryReturn with the return lost: the frame runs the cycle again
RetryReturn_runs_again ==
  /\ At("L195")
  /\ stack' = SetTop([Top EXCEPT !.pc = "L174"])
  /\ UNCHANGED <<files, main_webhook_ok, exit, runs, fetches, rejections,
                 ledger_ops, alerts, sent, history, harness>>

\* the return after the recursive call
RetryReturn ==
  /\ At("L195")
  /\ Return
  /\ UNCHANGED <<files, main_webhook_ok, runs, fetches, rejections,
                 ledger_ops, alerts, sent,
                 history, harness>>

\* NoLines treating the empty result as a condition to alert on
NoLines_alerts ==
  /\ At("L191")
  /\ ~Top.lines.is_none
  /\ Top.lines.val = <<>>
  /\ alerts' = alerts + 1
  /\ Return
  /\ last_completed' = Top.lines
  /\ UNCHANGED <<files, main_webhook_ok, runs, fetches, rejections,
                 ledger_ops, sent, ever_posted, ever_delivered, appended,
                 harness>>

\* if not lines: return
NoLines ==
  /\ At("L191")
  /\ ~Top.lines.is_none
  /\ Top.lines.val = <<>>
  /\ Return
  /\ last_completed' = Top.lines
  /\ UNCHANGED <<files, main_webhook_ok, runs, fetches, rejections,
                 ledger_ops, alerts, sent,
                 ever_posted, ever_delivered, appended, harness>>

\* filter_new with the membership test lost: every parsed record is new
filter_new_keep_all(comments, seen) == comments

\* new = [c for c in comments if (store, timestamp, comment) not in seen]
RECURSIVE filter_new(_, _)
filter_new(comments, seen) ==
  IF comments = <<>> THEN <<>>
  ELSE (IF Ident(Head(comments)) \notin seen THEN <<Head(comments)>>
                                              ELSE <<>>)
         \o filter_new(Tail(comments), seen)

\* ParseFilter with the dispatch loop starting at the second new record
ParseFilter_skip_first ==
  /\ At("L191")
  /\ ~Top.lines.is_none
  /\ Top.lines.val # <<>>
  /\ LET comments == parse_comments(Top.lines.val)
         seen     == read_seen(comments_log)
         new      == filter_new(comments, seen)
     IN  IF new = <<>>
           THEN /\ Return
                /\ last_completed' = Top.lines
           ELSE /\ stack' = SetTop([Top EXCEPT !.pc = "L208",
                                               !.comments = comments,
                                               !.new = new, !.i = 2])
                /\ UNCHANGED <<exit, last_completed>>
  /\ ledger_ops' = Append(ledger_ops, "read")
  /\ UNCHANGED <<files, main_webhook_ok, runs, fetches, rejections, alerts,
                 sent, ever_posted, ever_delivered, appended, harness>>

\* comments = parse_comments(lines); seen = read_seen(); new = ...;
\* if not new: return
ParseFilter ==
  /\ At("L191")
  /\ ~Top.lines.is_none
  /\ Top.lines.val # <<>>
  /\ LET comments == parse_comments(Top.lines.val)
         seen     == read_seen(comments_log)
         new      == filter_new(comments, seen)
     IN  IF new = <<>>
           THEN /\ Return
                /\ last_completed' = Top.lines
           ELSE /\ stack' = SetTop([Top EXCEPT !.pc = "L208",
                                               !.comments = comments,
                                               !.new = new, !.i = 1])
                /\ UNCHANGED <<exit, last_completed>>
  /\ ledger_ops' = Append(ledger_ops, "read")
  /\ UNCHANGED <<files, main_webhook_ok, runs, fetches, rejections, alerts,
                 sent, ever_posted, ever_delivered, appended, harness>>

\* PostComment with the delivery error escaping post_comment
PostComment_raises(res) ==
  /\ At("L208")
  /\ Top.i <= Len(Top.new)
  /\ res \in post_results(main_webhook_ok)
  /\ LET c == Top.new[Top.i]
     IN  /\ sent' = Append(sent, post_comment(c, res))
         /\ ever_posted' = ever_posted \cup {Ident(c)}
         /\ ever_delivered' = IF res = "ok"
                                THEN ever_delivered \cup {Ident(c)}
                                ELSE ever_delivered
  /\ IF res = "failed"
       THEN stack' = <<>> /\ exit' = "traceback"
       ELSE stack' = SetTop([Top EXCEPT !.i = @ + 1]) /\ exit' = exit
  /\ UNCHANGED <<files, main_webhook_ok, runs, fetches, rejections,
                 ledger_ops, alerts,
                 appended, last_completed, harness>>

\* for c in new: post_comment(c); time.sleep(1.0)
PostComment(res) ==
  /\ At("L208")
  /\ Top.i <= Len(Top.new)
  /\ res \in post_results(main_webhook_ok)
  /\ LET c == Top.new[Top.i]
     IN  /\ sent' = Append(sent, post_comment(c, res))
         /\ ever_posted' = ever_posted \cup {Ident(c)}
         /\ ever_delivered' = IF res = "ok"
                                THEN ever_delivered \cup {Ident(c)}
                                ELSE ever_delivered
  /\ stack' = SetTop([Top EXCEPT !.i = @ + 1])
  /\ UNCHANGED <<files, main_webhook_ok, exit, runs, fetches, rejections,
                 ledger_ops, alerts,
                 appended, last_completed, harness>>

\* AppendComments moved into the loop: the commit does not wait for its end
AppendComments_in_loop ==
  /\ At("L208")
  /\ comments_log' = append_comments(comments_log, Top.new)
  /\ appended' = appended \o Top.new
  /\ last_completed' = Top.lines
  /\ ledger_ops' = Append(ledger_ops, "append")
  /\ Return
  /\ UNCHANGED <<auth_state, main_webhook_ok, runs, fetches, rejections,
                 alerts, sent, ever_posted, ever_delivered, harness>>

\* append_comments(new) after the loop, then the function returns
AppendComments ==
  /\ At("L208")
  /\ Top.i > Len(Top.new)
  /\ comments_log' = append_comments(comments_log, Top.new)
  /\ appended' = appended \o Top.new
  /\ last_completed' = Top.lines
  /\ ledger_ops' = Append(ledger_ops, "append")
  /\ Return
  /\ UNCHANGED <<auth_state, main_webhook_ok, runs, fetches, rejections,
                 alerts, sent, ever_posted, ever_delivered, harness>>

\* the process is killed at any point of a run; the files stay as they are
Crash ==
  /\ stack # <<>>
  /\ stack' = <<>>
  /\ exit' = "killed"
  /\ UNCHANGED <<files, main_webhook_ok, runs, fetches, rejections,
                 ledger_ops, alerts, sent,
                 history, harness>>

Next ==
  \/ \E cmd \in {"run", "login"} : Start(cmd)
  \/ AuthPresent
  \/ AutoLoginOk
  \/ AutoLoginFailed
  \/ \E r \in FetchResults : Fetch(r)
  \/ FetchRaises
  \/ AuthRejected
  \/ RetryReturn
  \/ NoLines
  \/ ParseFilter
  \/ \E res \in {"ok", "failed", "invalid"} : PostComment(res)
  \/ AppendComments
  \/ Crash

Spec == Init /\ [][Next]_vars

(***************************************************************************)
(* Properties of the ingestion cycle                                       *)
(***************************************************************************)
CommittedIds == {Ident(appended[k]) : k \in 1..Len(appended)}

Last(q) == q[Len(q)]

\* the step is a call of post_comment
Dispatches == sent' # sent /\ sent' # <<>>

\* the records of the last n calls of post_comment / rows of the ledger
LastRecords(q, n) == [k \in 1..n |-> q[Len(q) - n + k]]

\* C1: once an identity has been committed by a completed append, no later
\* step dispatches a record of that identity, and a cycle that fetches the
\* lines of the last completed cycle returns without dispatching or appending
C1_NoRedispatch ==
  [][ /\ Dispatches => Ident(Last(sent').c) \notin CommittedIds
      /\ ( /\ At("L191")
           /\ ~Top.lines.is_none
           /\ Top.lines = last_completed
           /\ exit' # "killed" )
         => /\ stack' = Pop
            /\ sent' = sent
            /\ comments_log' = comments_log ]_vars

\* a later cycle has parsed a record whose identity is committed, filtered it
\* out and gone on with the remaining records
C1_Witness ==
  /\ At("L208")
  /\ \E k \in 1..Len(Top.comments) : Ident(Top.comments[k]) \in CommittedIds

\* C2 (as claimed): one invocation fetches at most twice
C2_AtMostTwoFetches == fetches <= 2

\* C3 (as claimed): every identity in the ledger has been delivered to the
\* chat webhook at least once
C3_CommittedWereDelivered ==
  read_seen(comments_log) \subseteq ever_delivered

\* C3 (amended): every identity in the ledger has been passed to post_comment
\* at least once
C3_CommittedWerePosted ==
  read_seen(comments_log) \subseteq ever_posted

\* an identity is committed whose only delivery failed
C3_Witness ==
  /\ comments_log.exists
  /\ \E id \in read_seen(comments_log) : id \notin ever_delivered

\* C4: a record whose store, timestamp and comment equal those of a committed
\* row, but whose score differs, is not among the new records of a cycle, is
\* not dispatched and is not appended
C4_SameIdentityOtherScore(c) ==
  \E j \in 1..Len(appended) :
     /\ appended[j].store = c.store
     /\ appended[j].timestamp = c.timestamp
     /\ appended[j].comment = c.comment
     /\ appended[j].score # c.score

C4_ScoreNotInIdentity ==
  [][ /\ (At("L191") /\ stack' # <<>> /\ stack'[Len(stack')].pc = "L208")
         => \A k \in 1..Len(stack'[Len(stack')].new) :
               ~C4_SameIdentityOtherScore(stack'[Len(stack')].new[k])
      /\ Dispatches => ~C4_SameIdentityOtherScore(Last(sent').c)
      /\ appended' # appended
         => \A k \in (Len(appended) + 1)..Len(appended') :
               ~C4_SameIdentityOtherScore(appended'[k]) ]_vars

\* a cycle has parsed a record that differs from a committed row in its score
\* only, and goes on without it
C4_Witness ==
  /\ At("L208")
  /\ \E k \in 1..Len(Top.comments) :
        /\ C4_SameIdentityOtherScore(Top.comments[k])
        /\ \A j \in 1..Len(Top.new) : Top.new[j] # Top.comments[k]

\* C5: the ledger is written only when post_comment has been called for every
\* new record of the cycle, and while a new record is still to be dispatched
\* no identity of the cycle's new records is in the ledger
C5_CommitAfterDispatch ==
  /\ [](At("L208") /\ Top.i <= Len(Top.new)
        => \A k \in 1..Len(Top.new) :
              Ident(Top.new[k]) \notin read_seen(comments_log))
  /\ [][ comments_log' # comments_log
         => /\ At("L208")
            /\ Len(sent) >= Len(Top.new)
            /\ [k \in 1..Len(Top.new) |->
                  LastRecords(sent, Len(Top.new))[k].c] = Top.new ]_vars

\* a cycle with two new records has dispatched both and then committed
C5_Witness ==
  /\ stack = <<>>
  /\ exit = "ok"
  /\ Len(sent) >= 2
  /\ Len(appended) >= Len(sent)
  /\ LastRecords(appended, Len(sent)) = [k \in 1..Len(sent) |-> sent[k].c]

\* C9: an invocation that has dispatched anything and ended on its own has
\* called post_comment for every new record and committed them all, whatever
\* the outcome of each delivery
C9_FailureDoesNotBlock ==
  (exit \in {"ok", "traceback"} /\ sent # <<>>)
    => /\ exit = "ok"
       /\ Len(appended) >= Len(sent)
       /\ LastRecords(appended, Len(sent)) = [k \in 1..Len(sent) |-> sent[k].c]
       /\ \A k \in 1..Len(sent) : Ident(sent[k].c) \in read_seen(comments_log)

\* the first of two deliveries failed, the second was still attempted and
\* both records are committed
C9_Witness ==
  /\ exit = "ok"
  /\ Len(sent) >= 2
  /\ sent[1].res = "failed"
  /\ \A k \in 1..Len(sent) : Ident(sent[k].c) \in read_seen(comments_log)

\* C10: a frame that starts without auth_state.json logs in at most once; a
\* failed login emits one alert and returns with no fetch, no dispatch and no
\* ledger change, and the frames waiting for it can only return
C10_LoginFailureEndsCycle ==
  /\ [](\A k \in 1..Len(stack) :
          /\ stack[k].logins <= 1
          /\ k < Len(stack) => stack[k].pc = "L195")
  /\ [][ (At("L174") /\ ~auth_state /\ exit' # "killed")
         => \/ /\ auth_state'
               /\ stack' = SetTop([Top EXCEPT !.pc = "L185", !.logins = 1])
               /\ alerts' = alerts
            \/ /\ ~auth_state'
               /\ alerts' = alerts + 1
               /\ stack' = Pop
               /\ fetches' = fetches
               /\ sent' = sent
               /\ comments_log' = comments_log ]_vars

\* an invocation that started without auth_state.json has ended after a
\* failed login: one alert, no fetch, no dispatch
C10_Witness ==
  /\ exit = "ok"
  /\ runs >= 1
  /\ alerts = 1
  /\ fetches = 0
  /\ rejections = 0
  /\ ledger_ops = <<>>
  /\ sent = <<>>
  /\ ~auth_state

(***************************************************************************)
(* parse_comments on concatenations of valid records                       *)
(***************************************************************************)
\* records per input and body lines per record
MaxRecs == 2
MaxBody == 2

\* a header line with the score line that closes its record; stripped, the
\* first matches store_re and the second score_re
HeaderScoreLines ==
  { << <<"5", SP, "A">>, <<"9">> >>,
    << <<SP, "7", SP, "B", SP>>, <<SP, "1", "0">> >> }
\* any line; the second one looks like a score
TimestampLines == { <<"t">>, <<"9">> }
\* stripped, these do not match score_re: a blank line, a header look-alike
BodyLines == { <<>>, <<SP, "5", SP, "A">> }

BodySeqs == UNION { [1..n -> BodyLines] : n \in 1..MaxBody }

ValidRecords ==
  { [header |-> hs[1], ts |-> ts, body |-> body, score |-> hs[2]] :
      hs \in HeaderScoreLines, ts \in TimestampLines, body \in BodySeqs }

RecordLines(r) == <<r.header, r.ts>> \o r.body \o <<r.score>>

RECURSIVE ConcatRecords(_)
ConcatRecords(recs) ==
  IF recs = <<>> THEN <<>>
  ELSE RecordLines(Head(recs)) \o ConcatRecords(Tail(recs))

ParseInputs ==
  { [lines |-> ConcatRecords(recs), recs |-> recs] :
      recs \in UNION { [1..k -> ValidRecords] : k \in 1..MaxRecs } }

\* everything but the harness, as before the first invocation
Idle ==
  /\ auth_state = FALSE
  /\ comments_log = [exists |-> FALSE, data |-> <<>>]
  /\ stack = <<>>
  /\ exit = "none"
  /\ runs = 0
  /\ fetches = 0
  /\ rejections = 0
  /\ ledger_ops = <<>>
  /\ alerts = 0
  /\ sent = <<>>
  /\ ever_posted = {}
  /\ ever_delivered = {}
  /\ appended = <<>>
  /\ last_completed = NoneLines

InitParse ==
  /\ Idle
  /\ main_webhook_ok = TRUE
  /\ arg \in ParseInputs
  /\ result = <<>>
  /\ called = FALSE

\* comments = parse_comments(lines)
ParseCall ==
  /\ ~called
  /\ result' = parse_comments(arg.lines)
  /\ called' = TRUE
  /\ UNCHANGED <<files, main_webhook_ok, stack, exit, runs, fetches, rejections,
                 ledger_ops, alerts,
                 sent, history, arg>>

NextParse == ParseCall

SpecParse == InitParse /\ [][NextParse]_vars

StripAll(ls) == [k \in 1..Len(ls) |-> strip(ls[k])]

\* C6 (as claimed): k concatenated valid records parse to k records whose
\* store, timestamp and score are the stripped lines and whose comment is the
\* stripped body lines joined by newlines
C6_FieldsVerbatim ==
  called =>
    result = [k \in 1..Len(arg.recs) |->
                [store     |-> strip(arg.recs[k].header),
                 timestamp |-> strip(arg.recs[k].ts),
                 comment   |-> join_lines(StripAll(arg.recs[k].body)),
                 score     |-> strip(arg.recs[k].score)]]

\* C6 (amended): as above, the comment being the joined body stripped as a
\* whole, so that blank first and last body lines leave no trace
C6_FieldsTrimmed ==
  called =>
    result = [k \in 1..Len(arg.recs) |->
                [store     |-> strip(arg.recs[k].header),
                 timestamp |-> strip(arg.recs[k].ts),
                 comment   |-> strip(join_lines(StripAll(arg.recs[k].body))),
                 score     |-> strip(arg.recs[k].score)]]

\* two records were parsed, one of them with a blank first body line, a
\* header look-alike in the body and a padded score line
C6_Witness ==
  /\ called
  /\ Len(arg.recs) = 2
  /\ Len(result) = 2
  /\ arg.recs[2].body = << <<>>, <<SP, "5", SP, "A">> >>
  /\ arg.recs[1].score = <<SP, "1", "0">>
  /\ result[2].comment = <<"5", SP, "A">>

(***************************************************************************)
(* post_comment on single records                                          *)
(***************************************************************************)
ScoreTexts ==
  { <<>>, <<"0">>, <<"4">>, <<"5">>, <<"7">>, <<"8">>, <<"1", "0">>,
    <<"0", "7">>, <<"9", "9">>, <<"a", "b">>, <<"-", "1">> }

PostInputs ==
  [store : { <<"5", SP, "A">>, <<"7", SP, "B">> },
   timestamp : { <<"t">> },
   comment : { <<"o", "k">>, <<"a", LF, "b">> },
   score : ScoreTexts]

InitPost ==
  /\ Idle
  /\ main_webhook_ok \in BOOLEAN
  /\ arg \in PostInputs
  /\ result = <<>>
  /\ called = FALSE

\* post_comment(c)
PostCall(res) ==
  /\ ~called
  /\ res \in post_results(main_webhook_ok)
  /\ result' = post_comment(arg, res)
  /\ called' = TRUE
  /\ UNCHANGED <<files, main_webhook_ok, stack, exit, runs, fetches, rejections,
                 ledger_ops, alerts,
                 sent, history, arg>>

NextPost == \E res \in {"ok", "failed", "invalid"} : PostCall(res)

SpecPost == InitPost /\ [][NextPost]_vars

\* the integer each score text stands for, a missing or unparsable one for 0
C7_Value(text) ==
  CASE text = <<>> -> 0
    [] text = <<"0">> -> 0
    [] text = <<"4">> -> 4
    [] text = <<"5">> -> 5
    [] text = <<"7">> -> 7
    [] text = <<"8">> -> 8
    [] text = <<"1", "0">> -> 10
    [] text = <<"0", "7">> -> 7
    [] text = <<"9", "9">> -> 99
    [] text = <<"a", "b">> -> 0
    [] text = <<"-", "1">> -> -1

C7_Shown(v) ==
  CASE v = -1 -> <<"-", "1">>
    [] v = 0 -> <<"0">>
    [] v = 4 -> <<"4">>
    [] v = 5 -> <<"5">>
    [] v = 7 -> <<"7">>
    [] v = 8 -> <<"8">>
    [] v = 10 -> <<"1", "0">>
    [] v = 99 -> <<"9", "9">>

\* C7: the card of every request shows the coerced integer score and carries
\* red/Detractor for a score up to 4, orange/Passive for 5 to 7 and
\* green/Promoter from 8 on
C7_Classification ==
  (called /\ result.res # "invalid") =>
    LET v  == C7_Value(arg.score)
        st == result.payload.subtitle
        emoji == st[1]
        label == st[Len(st) - 1]
    IN  /\ result.payload.score = C7_Shown(v)
        /\ v <= 4 => (emoji = "red" /\ label = "Detractor")
        /\ (5 <= v /\ v <= 7) => (emoji = "orange" /\ label = "Passive")
        /\ v >= 8 => (emoji = "green" /\ label = "Promoter")
        /\ st = <<emoji, SP>> \o arg.store \o <<SP, "(", label, ")">>

\* a record of score 8 was posted as green/Promoter
C7_Witness ==
  /\ called
  /\ result.res = "ok"
  /\ arg.score = <<"8">>
  /\ result.payload.subtitle[1] = "green"
  /\ result.payload.score = <<"8">>

(***************************************************************************)
(* append_comments and read_seen on the ledger file                        *)
(***************************************************************************)
\* records per append_comments call and rows in the file
MaxList == 2
MaxRows == 3

LedgerRecords ==
  { [store |-> <<"5", SP, "A">>, timestamp |-> <<"t">>,
     comment |-> <<"o", "k">>, score |-> <<"9">>],
    [store |-> <<"5", SP, "A">>, timestamp |-> <<"t">>,
     comment |-> <<"o", "k">>, score |-> <<"3">>],
    [store |-> <<"7", SP, "B">>, timestamp |-> <<"u">>,
     comment |-> <<"a", COMMA, "b", LF, QUOTE, "c">>, score |-> <<"1", "0">>],
    [store |-> <<"5", SP, "A">>, timestamp |-> <<>>,
     comment |-> <<>>, score |-> <<>>],
    [store |-> <<"5", SP, "A">>, timestamp |-> <<"t">>,
     comment |-> <<QUOTE>>, score |-> <<"9">>] }

RecordLists == UNION { [1..n -> LedgerRecords] : n \in 0..MaxList }

InitLedger ==
  /\ Idle
  /\ main_webhook_ok = TRUE
  /\ arg = <<>>
  /\ result = {}
  /\ called = FALSE

\* append_comments(new)
AppendCall(new) ==
  /\ Len(appended) + Len(new) <= MaxRows
  /\ comments_log' = append_comments(comments_log, new)
  /\ appended' = appended \o new
  /\ arg' = new
  /\ called' = FALSE
  /\ UNCHANGED <<auth_state, main_webhook_ok, stack, exit, runs, fetches,
                 rejections, ledger_ops,
                 alerts, sent, ever_posted, ever_delivered, last_completed,
                 result>>

\* seen = read_seen(), as by a fresh process
ReadCall ==
  /\ ~called
  /\ result' = read_seen(comments_log)
  /\ called' = TRUE
  /\ UNCHANGED <<files, main_webhook_ok, stack, exit, runs, fetches, rejections,
                 ledger_ops, alerts,
                 sent, history, arg>>

NextLedger ==
  \/ \E new \in RecordLists : AppendCall(new)
  \/ ReadCall

SpecLedger == InitLedger /\ [][NextLedger]_vars

\* C8: a read after any appends holds the identity of every appended record
\* and every identity the read before held; a read of a missing file gives
\* the empty set
C8_LedgerRoundTrip ==
  /\ [](called => /\ \A k \in 1..Len(appended) :
                       <<appended[k].store, appended[k].timestamp,
                         appended[k].comment>> \in result
                  /\ ~comments_log.exists => result = {})
  /\ [][(~called /\ called') => result \subseteq result']_vars

\* two appends, a read between them and a read after them; a comment that
\* needs quoting is among the rows
C8_Witness ==
  /\ called
  /\ Len(appended) >= 2
  /\ Len(arg) >= 1
  /\ Len(arg) < Len(appended)
  /\ \E k \in 1..Len(appended) : LF \in {appended[k].comment[j] :
                                          j \in 1..Len(appended[k].comment)}
  /\ Cardinality(result) >= 2


(***************************************************************************)
(* Authentication retries, fetch errors and quiet cycles                   *)
(***************************************************************************)
\* C11 (as claimed): an invocation whose fetch was rejected a second time
\* ends with an alert emitted: one that ended normally after two rejections
\* has called alert_login_needed
C11_SecondRejectionAlerts ==
  (exit = "ok" /\ rejections >= 2) => alerts >= 1

\* C12 (as claimed): an error during the page fetch does not propagate out of
\* scrape_once: the step at line 185 never ends the process with a traceback
C12_FetchErrorNotPropagated ==
  [][At("L185") => exit' # "traceback"]_vars


\* the fetched lines hold no record whose identity is not yet committed
NothingNew(lines) ==
  \A k \in 1..Len(parse_comments(lines)) :
    Ident(parse_comments(lines)[k]) \in CommittedIds

\* C13: a cycle whose fetch returned an empty line sequence, or lines none of
\* whose parsed records is new, returns at once (the process exits normally
\* when it was the outermost cycle) without dispatching, without writing the
\* ledger, keeping auth_state.json and without an alert
C13_QuietCycle ==
  [][ ( /\ At("L191")
        /\ ~Top.lines.is_none
        /\ (Top.lines.val = <<>> \/ NothingNew(Top.lines.val))
        /\ exit' # "killed" )
      => /\ stack' = Pop
         /\ exit' = (IF Len(stack) = 1 THEN "ok" ELSE exit)
         /\ UNCHANGED <<sent, comments_log, auth_state, alerts, ever_posted,
                        appended>> ]_vars

\* an invocation has ended normally after reading the ledger and finding every
\* parsed record of a page already committed
C13_Witness ==
  /\ exit = "ok"
  /\ ledger_ops = <<"read">>
  /\ parse_comments(last_completed.val) # <<>>
  /\ sent = <<>>
  /\ alerts = 0
  /\ auth_state


(***************************************************************************)
(* The ledger file as a sequence of rows                                   *)
(***************************************************************************)
\* the (store, timestamp, comment, score) rows of a list of records
RowsOf(recs) ==
  [k \in 1..Len(recs) |->
     <<recs[k].store, recs[k].timestamp, recs[k].comment, recs[k].score>>]

\* the records passed to append_comments by the step, none when it made no call
Passed == SubSeq(appended', Len(appended) + 1, Len(appended'))

IsPrefix(p, q) == Len(p) <= Len(q) /\ SubSeq(q, 1, Len(p)) = p

\* C14: the rows a CSV reader finds in the ledger are at all times the rows of
\* every record passed to append_comments so far, in the order passed; every
\* step leaves the file's content as a prefix of the new content and its rows
\* followed by exactly the rows of the records it passed, and never removes
\* the file
C14_AppendOnly ==
  /\ [](csv_reader(comments_log.data) = RowsOf(appended))
  /\ [][ /\ IsPrefix(comments_log.data, comments_log'.data)
         /\ comments_log.exists => comments_log'.exists
         /\ csv_reader(comments_log'.data)
              = csv_reader(comments_log.data) \o RowsOf(Passed) ]_vars

\* a later append has passed a record that an earlier append had already
\* written, and the ledger holds both rows
C14_Witness ==
  /\ arg # <<>>
  /\ Len(appended) > Len(arg)
  /\ \E i \in 1..(Len(appended) - Len(arg)) :
       \E j \in (Len(appended) - Len(arg) + 1)..Len(appended) :
         appended[i] = appended[j]
  /\ Len(csv_reader(comments_log.data)) = Len(appended)


(***************************************************************************)
(* The new records of a cycle                                              *)
(***************************************************************************)
IsNew(c) == Ident(c) \notin CommittedIds

\* the records post_comment has been called with in this invocation
SentRecords == [k \in 1..Len(sent) |-> sent[k].c]

\* C15: a cycle with a non-empty line sequence that holds a new record goes
\* on to dispatch; its new list is the parsed records whose identity is not
\* in the ledger, in parse order; the calls of post_comment made so far are
\* for a prefix of that list, in order; and when the cycle returns, one call
\* has been made per new record and the ledger has gained exactly the rows of
\* the new list, in order
C15_NewRecordsInOrder ==
  /\ [](At("L208") =>
         /\ Top.lines.val # <<>>
         /\ Top.new = SelectSeq(parse_comments(Top.lines.val), IsNew)
         /\ Len(sent) <= Len(Top.new)
         /\ SentRecords = SubSeq(Top.new, 1, Len(sent)))
  /\ [][ /\ ( /\ At("L191")
              /\ ~Top.lines.is_none
              /\ Top.lines.val # <<>>
              /\ ~NothingNew(Top.lines.val)
              /\ exit' # "killed" )
            => (Len(stack') = Len(stack) /\ stack'[Len(stack)].pc = "L208")
         /\ (At("L208") /\ stack' = Pop /\ exit' # "killed")
            => /\ SentRecords = Top.new
               /\ sent' = sent
               /\ appended' = appended \o Top.new
               /\ csv_reader(comments_log'.data)
                    = csv_reader(comments_log.data) \o RowsOf(Top.new) ]_vars

\* an invocation has ended normally after dispatching and committing the one
\* new record of a page whose other record was already in the ledger
C15_Witness ==
  /\ exit = "ok"
  /\ ledger_ops = <<"read", "append">>
  /\ sent # <<>>
  /\ Len(parse_comments(last_completed.val)) > Len(sent)
  /\ SentRecords = LastRecords(appended, Len(sent))
  /\ Len(appended) > Len(sent)


(***************************************************************************)
(* Authentication state at the fetch                                       *)
(***************************************************************************)
\* successful auto-logins of the invocation, over the frames of the stack
RECURSIVE TotalLogins(_)
TotalLogins(st) ==
  IF st = <<>> THEN 0 ELSE Head(st).logins + TotalLogins(Tail(st))

\* the step is a call of copy_looker_text
Fetches == At("L185") /\ fetches' = fetches + 1

\* C16: a fetch is made only while auth_state.json exists; the step after a
\* rejected fetch removes the file and enters a new cycle at the
\* authentication check; and whenever a cycle stands at the fetch, every
\* rejection of the invocation has been followed by a successful auto-login
C16_FetchOnlyAuthenticated ==
  /\ [](At("L185") => (auth_state /\ TotalLogins(stack) >= rejections))
  /\ [][ /\ Fetches => auth_state
         /\ (At("L191") /\ Top.lines.is_none /\ exit' # "killed")
            => /\ ~auth_state'
               /\ Len(stack') = Len(stack) + 1
               /\ stack'[Len(stack')].pc = "L174"
               /\ fetches' = fetches ]_vars

\* a second fetch has been made, and accepted, after a rejection and the
\* auto-login that followed it
C16_Witness ==
  /\ At("L191")
  /\ ~Top.lines.is_none
  /\ rejections = 1
  /\ fetches = 2
  /\ Top.logins = 1
  /\ auth_state


(***************************************************************************)
(* One row and one dispatch per identity                                   *)
(***************************************************************************)
\* C17 (as claimed): no two rows committed to the ledger hold the same
\* identity, and no two calls of post_comment of an invocation are for the
\* same identity
C17_NoDuplicateIdentity ==
  /\ \A i, j \in 1..Len(appended) :
       i # j => Ident(appended[i]) # Ident(appended[j])
  /\ \A i, j \in 1..Len(sent) :
       i # j => Ident(sent[i].c) # Ident(sent[j].c)


(***************************************************************************)
(* One cycle in flight                                                     *)
(***************************************************************************)
\* C18: one invocation reads the ledger at most once and appends to it at
\* most once, after the read; every frame under the running one waits at the
\* return that follows its recursive call, having parsed nothing; and such a
\* frame, once the retry has returned, only returns: no fetch, no ledger
\* access, no dispatch
C18_SingleCycleInFlight ==
  /\ [](/\ ledger_ops \in {<<>>, <<"read">>, <<"read", "append">>}
        /\ \A k \in 1..(Len(stack) - 1) :
             /\ stack[k].pc = "L195"
             /\ stack[k].lines.is_none
             /\ stack[k].comments = <<>>
             /\ stack[k].new = <<>>)
  /\ [][ (At("L195") /\ exit' # "killed")
         => /\ stack' = Pop
            /\ exit' = (IF Len(stack) = 1 THEN "ok" ELSE exit)
            /\ UNCHANGED <<files, fetches, ledger_ops, sent, alerts,
                           history>> ]_vars

\* an invocation has ended normally whose first fetch was rejected and whose
\* retry read the ledger, dispatched and appended
C18_Witness ==
  /\ exit = "ok"
  /\ rejections >= 1
  /\ ledger_ops = <<"read", "append">>
  /\ sent # <<>>


(***************************************************************************)
(* parse_comments on arbitrary line sequences                              *)
(***************************************************************************)
MaxLines == 5

\* a header, a padded header, a padded score line, a bare two-digit line, a
\* text line and a blank line
LineKinds ==
  { <<"5", SP, "A">>, <<SP, "7", SP, "B", SP>>, <<SP, "9">>, <<"1", "0">>,
    <<"x">>, <<>> }

AnyLines == UNION { [1..n -> LineKinds] : n \in 0..MaxLines }

InitParseAny ==
  /\ Idle
  /\ main_webhook_ok = TRUE
  /\ arg \in { [lines |-> ls, recs |-> <<>>] : ls \in AnyLines }
  /\ result = <<>>
  /\ called = FALSE

NextParseAny == ParseCall

SpecParseAny == InitParseAny /\ [][NextParseAny]_vars

IsHeader(line) == store_re_match(strip(line))
IsScore(line)  == score_re_match(strip(line))

\* the first index from k on that holds a score line, Len(ls) + 1 if none
FirstScoreFrom(ls, k) ==
  IF \E j \in k..Len(ls) : IsScore(ls[j])
    THEN CHOOSE j \in k..Len(ls) :
           IsScore(ls[j]) /\ \A i \in k..(j - 1) : ~IsScore(ls[i])
    ELSE Len(ls) + 1

\* C19: when the first store-header line of the input is directly followed
\* by another store-header line, the first record has the first header as
\* store, the second header line as timestamp, the lines after it up to the
\* next score line as comment and that score line as score; the second
\* header starts no record: the remaining records are those of the lines
\* after the score line
C19_NoLookAhead ==
  called =>
    LET ls == arg.lines
        n  == Len(ls)
    IN  \A p \in 1..(n - 1) :
          ( /\ IsHeader(ls[p])
            /\ IsHeader(ls[p + 1])
            /\ \A i \in 1..(p - 1) : ~IsHeader(ls[i]) )
          => LET stop == FirstScoreFrom(ls, p + 2)
                 body == [k \in 1..(stop - (p + 2)) |-> strip(ls[p + 1 + k])]
             IN  /\ result # <<>>
                 /\ result[1] =
                      [store     |-> strip(ls[p]),
                       timestamp |-> strip(ls[p + 1]),
                       comment   |-> strip(join_lines(body)),
                       score     |-> IF stop <= n THEN strip(ls[stop])
                                                  ELSE <<>>]
                 /\ Tail(result) = parse_comments(SubSeq(ls, stop + 1, n))

\* a header directly followed by a header, then text and a score line, has
\* been parsed to a single record
C19_Witness ==
  /\ called
  /\ Len(arg.lines) >= 4
  /\ IsHeader(arg.lines[1])
  /\ IsHeader(arg.lines[2])
  /\ Len(result) = 1
  /\ result[1].timestamp = strip(arg.lines[2])
  /\ result[1].comment # <<>>
  /\ result[1].score # <<>>

\* C20: the records of any line sequence come from spans of lines that lie
\* within the input, do not overlap and are in increasing order, each
\* starting at a header line, and every header line lies in a span; every
\* store matches store_re and is not a bare one- or two-digit line; every
\* score is the empty string or the span's last line, which matches
\* score_re; the score is empty only for the last record, whose span then
\* ends with the input; and a header that is the final line gives empty
\* timestamp, comment and score
C20_ParserShape ==
  called =>
    LET ls    == arg.lines
        n     == Len(ls)
        spans == parse_spans(ls)
    IN  /\ Len(spans) = Len(result)
        /\ \A k \in 1..Len(spans) :
             /\ 1 <= spans[k].from
             /\ spans[k].from <= spans[k].to
             /\ spans[k].to <= n
             /\ k < Len(spans) => spans[k].to < spans[k + 1].from
             /\ result[k].store = strip(ls[spans[k].from])
             /\ store_re_match(result[k].store)
             /\ ~score_re_match(result[k].store)
             /\ \/ result[k].score = <<>>
                \/ /\ score_re_match(result[k].score)
                   /\ spans[k].to > spans[k].from + 1
                   /\ result[k].score = strip(ls[spans[k].to])
             /\ result[k].score = <<>>
                  => (k = Len(spans) /\ spans[k].to = n)
             /\ spans[k].from = n
                  => /\ result[k].timestamp = <<>>
                     /\ result[k].comment = <<>>
                     /\ result[k].score = <<>>
        /\ \A i \in 1..n :
             IsHeader(ls[i])
               => \E k \in 1..Len(spans) :
                     spans[k].from <= i /\ i <= spans[k].to

\* a bare two-digit line before the first header started no record, a full
\* record followed, and a header as the final line gave a record with empty
\* timestamp, comment and score
C20_Witness ==
  /\ called
  /\ Len(arg.lines) = MaxLines
  /\ score_re_match(arg.lines[1])
  /\ Len(result) = 2
  /\ result[1].score # <<>>
  /\ result[2].timestamp = <<>>
  /\ result[2].comment = <<>>
  /\ result[2].score = <<>>

=============================================================================
